---- MODULE Spec2Model ----
(***************************************************************************)
(* Model of the accounting engine of automatisation-rapport-financier:     *)
(*   src/src/core/simple_models.py      LigneCompte, JeuDonnees, reports   *)
(*   src/src/core/simple_transforms.py  SimpleReportCalculator             *)
(*                                                                         *)
(* Amounts (Python floats) are modelled as exact integers counted in       *)
(* hundredths of the currency unit, so the tolerance 0.01 of the balance   *)
(* check is the integer 1.  Binary floating-point rounding is not          *)
(* modelled.  A quotient is kept as the pair [num, den] and compared by    *)
(* cross-multiplication.  An account code is the sequence of its digits.   *)
(* A raised exception is a record [exception |-> ..., message |-> ...].    *)
(***************************************************************************)
EXTENDS Integers, Sequences, FiniteSets, TLC

\* ------------------------------------------------------------------ bounds
MaxLignes == 2
MaxMontant == 2

\* ------------------------------------------------------- program constants
\* 0.01, the tolerance of JeuDonnees.__post_init__, in hundredths
Epsilon == 1
\* len(code_compte) < 3 is rejected
LongueurMinCode == 3
ClasseMin == 1
ClasseMax == 9

DEBIT == "DEBIT"
CREDIT == "CREDIT"
Sens == {DEBIT, CREDIT}

None == [none |-> TRUE]

ValueError(msg) == [exception |-> "ValueError", message |-> msg]
ZeroDivisionError == [exception |-> "ZeroDivisionError", message |-> "division by zero"]

IsException(v) == "exception" \in DOMAIN v

\* the messages, written without accents; the figures that the source formats
\* into a message are left out
MsgCode == "Code compte invalide"
MsgClasse == "Classe doit etre entre 1 et 9"
MsgMontant == "Montant doit etre positif"
MsgVide == "Le jeu de donnees doit contenir au moins une ligne"
MsgDesequilibre == "Desequilibre"

\* ----------------------------------------------------------------- helpers
\* str.startswith on digit sequences
StartsWith(code, prefix) ==
    /\ Len(prefix) <= Len(code)
    /\ SubSeq(code, 1, Len(prefix)) = prefix

Abs(x) == IF x < 0 THEN -x ELSE x

Max(a, b) == IF a >= b THEN a ELSE b

\* sum(l.montant for l in s), in list order
RECURSIVE SommeMontants(_)
SommeMontants(s) ==
    IF s = <<>> THEN 0 ELSE Head(s).montant + SommeMontants(Tail(s))

\* ------------------------------------------------------------- LigneCompte
\* mutant: a zero amount is rejected (montant <= 0)
LigneCompteSansZero(code_compte, libelle, classe, sens, montant, periode) ==
    IF code_compte = <<>> \/ Len(code_compte) < LongueurMinCode
    THEN ValueError(MsgCode)
    ELSE IF ~(ClasseMin <= classe /\ classe <= ClasseMax)
    THEN ValueError(MsgClasse)
    ELSE IF montant <= 0
    THEN ValueError(MsgMontant)
    ELSE [code_compte |-> code_compte, libelle |-> libelle, classe |-> classe,
          sens |-> sens, montant |-> montant, periode |-> periode]

\* The dataclass constructor followed by __post_init__: the entry, or the
\* ValueError of the first rule that fails (code, then classe, then montant).
LigneCompte(code_compte, libelle, classe, sens, montant, periode) ==
    IF code_compte = <<>> \/ Len(code_compte) < LongueurMinCode
    THEN ValueError(MsgCode)
    ELSE IF ~(ClasseMin <= classe /\ classe <= ClasseMax)
    THEN ValueError(MsgClasse)
    ELSE IF montant < 0
    THEN ValueError(MsgMontant)
    ELSE [code_compte |-> code_compte, libelle |-> libelle, classe |-> classe,
          sens |-> sens, montant |-> montant, periode |-> periode]

\* -------------------------------------------------------------- JeuDonnees
\* JeuDonnees.get_total_sens / get_total_classe, on the list of entries
TotalSens(lignes, sens) ==
    SommeMontants(SelectSeq(lignes, LAMBDA l : l.sens = sens))

TotalClasse(lignes, classe) ==
    SommeMontants(SelectSeq(lignes, LAMBDA l : l.classe = classe))

get_total_sens(donnees, sens) == TotalSens(donnees.lignes, sens)

get_total_classe(donnees, classe) == TotalClasse(donnees.lignes, classe)

\* mutant: the tolerance itself is rejected (>= instead of >)
JeuDonneesToleranceStricte(lignes, periode, entreprise) ==
    IF lignes = <<>>
    THEN ValueError(MsgVide)
    ELSE IF Abs(TotalSens(lignes, DEBIT) - TotalSens(lignes, CREDIT)) >= Epsilon
    THEN ValueError(MsgDesequilibre)
    ELSE [lignes |-> lignes, periode |-> periode, entreprise |-> entreprise]

\* The dataclass constructor followed by __post_init__
JeuDonnees(lignes, periode, entreprise) ==
    IF lignes = <<>>
    THEN ValueError(MsgVide)
    ELSE LET total_debit == TotalSens(lignes, DEBIT)
             total_credit == TotalSens(lignes, CREDIT)
         IN IF Abs(total_debit - total_credit) > Epsilon
            THEN ValueError(MsgDesequilibre)
            ELSE [lignes |-> lignes, periode |-> periode, entreprise |-> entreprise]

\* ------------------------------------------------- SimpleReportCalculator
\* the digit prefixes the calculators test with str.startswith
P111 == <<1, 1, 1>>
P11 == <<1, 1>>
P14 == <<1, 4>>
P342 == <<3, 4, 2>>
P441 == <<4, 4, 1>>

\* mutant: the direction of the entries is not tested
SommeClassesToutSens(donnees, classes, sens) ==
    SommeMontants(SelectSeq(donnees.lignes, LAMBDA l : l.classe \in classes))

\* sum(l.montant for l in donnees.lignes if l.classe in classes and l.sens == sens)
SommeClasses(donnees, classes, sens) ==
    SommeMontants(SelectSeq(donnees.lignes,
                            LAMBDA l : l.classe \in classes /\ l.sens = sens))

\* ... and l.code_compte.startswith(prefix)
SommePrefixe(donnees, classe, sens, prefix) ==
    SommeMontants(SelectSeq(donnees.lignes,
                            LAMBDA l : /\ l.classe = classe
                                       /\ l.sens = sens
                                       /\ StartsWith(l.code_compte, prefix)))

\* ... and not l.code_compte.startswith(prefix)
SommeHorsPrefixe(donnees, classe, sens, prefix) ==
    SommeMontants(SelectSeq(donnees.lignes,
                            LAMBDA l : /\ l.classe = classe
                                       /\ l.sens = sens
                                       /\ ~StartsWith(l.code_compte, prefix)))

\* mutant: the direction test is forgotten
RessourcesStablesSansSens(donnees) ==
    SommeMontants(SelectSeq(donnees.lignes, LAMBDA l : l.classe \in {1, 5}))

\* ressources stables of the functional report: class 1 and 5 credits
RessourcesStables(donnees) == SommeClasses(donnees, {1, 5}, CREDIT)

\* mutant: the stocks are left out of the current assets
ActifsCirculantsSansStocks(donnees) == SommeClasses(donnees, {4}, DEBIT)

\* debits of classes 3 and 4
ActifsCirculants(donnees) == SommeClasses(donnees, {3, 4}, DEBIT)

calculer_bilan_fonctionnel(donnees) ==
    LET emplois_stables == SommeClasses(donnees, {2}, DEBIT)
        ressources_stables == RessourcesStables(donnees)
        frng == ressources_stables - emplois_stables
        actifs_circulants == ActifsCirculants(donnees)
        passifs_circulants == SommeClasses(donnees, {3, 4}, CREDIT)
        bfr == actifs_circulants - passifs_circulants
        tresorerie_active == SommeClasses(donnees, {5}, DEBIT)
        tresorerie_passive == SommeClasses(donnees, {5}, CREDIT)
        tresorerie_nette == tresorerie_active - tresorerie_passive
    IN [type |-> "BilanFonctionnel",
        emplois_stables |-> emplois_stables,
        ressources_stables |-> ressources_stables,
        frng |-> frng,
        actifs_circulants |-> actifs_circulants,
        passifs_circulants |-> passifs_circulants,
        bfr |-> bfr,
        tresorerie_active |-> tresorerie_active,
        tresorerie_passive |-> tresorerie_passive,
        tresorerie_nette |-> tresorerie_nette,
        periode |-> donnees.periode]

\* mutant: the complement is taken of the wrong prefix
AutresCreancesHors441(donnees) == SommeHorsPrefixe(donnees, 4, DEBIT, P441)

\* class-4 debits NOT starting with '342'
AutresCreances(donnees) == SommeHorsPrefixe(donnees, 4, DEBIT, P342)

\* mutant: the result is taken as debits minus credits
ResultatNetDebiteur(donnees) ==
    SommeClasses(donnees, {6, 7}, DEBIT) - SommeClasses(donnees, {6, 7}, CREDIT)

\* (class 6/7 credits) - (class 6/7 debits)
ResultatNet(donnees) ==
    SommeClasses(donnees, {6, 7}, CREDIT) - SommeClasses(donnees, {6, 7}, DEBIT)

\* mutant: the reserves are left out of the equity
CapitauxPropresSansReserves(capital_social, reserves, resultat_net) ==
    capital_social + Max(0, resultat_net)

\* capital_social + reserves + max(0, resultat_net)
CapitauxPropres(capital_social, reserves, resultat_net) ==
    capital_social + reserves + Max(0, resultat_net)

\* mutant: the exclusion of the '111' accounts is forgotten
ReservesAvecCapital(donnees) == SommePrefixe(donnees, 1, CREDIT, P11)

\* class-1 credits starting with '11' and not with '111'
Reserves(donnees) ==
    SommeMontants(SelectSeq(donnees.lignes,
        LAMBDA l : /\ l.classe = 1
                   /\ l.sens = CREDIT
                   /\ StartsWith(l.code_compte, P11)
                   /\ ~StartsWith(l.code_compte, P111)))

calculer_bilan_financier(donnees) ==
    LET immobilisations_nettes == SommeClasses(donnees, {2}, DEBIT)
        stocks == SommeClasses(donnees, {3}, DEBIT)
        creances_clients == SommePrefixe(donnees, 4, DEBIT, P342)
        autres_creances == AutresCreances(donnees)
        tresorerie_active == SommeClasses(donnees, {5}, DEBIT)
        total_actif == immobilisations_nettes + stocks + creances_clients
                       + autres_creances + tresorerie_active
        capital_social == SommePrefixe(donnees, 1, CREDIT, P111)
        reserves == Reserves(donnees)
        resultat_net == ResultatNet(donnees)
        capitaux_propres == CapitauxPropres(capital_social, reserves, resultat_net)
        dettes_financieres_lt == SommePrefixe(donnees, 1, CREDIT, P14)
        dettes_fournisseurs == SommePrefixe(donnees, 4, CREDIT, P441)
        autres_dettes_ct == SommeHorsPrefixe(donnees, 4, CREDIT, P441)
        tresorerie_passive == SommeClasses(donnees, {5}, CREDIT)
        total_passif == capitaux_propres + dettes_financieres_lt + dettes_fournisseurs
                        + autres_dettes_ct + tresorerie_passive
    IN [type |-> "BilanFinancier",
        immobilisations_nettes |-> immobilisations_nettes,
        stocks |-> stocks,
        creances_clients |-> creances_clients,
        autres_creances |-> autres_creances,
        tresorerie_active |-> tresorerie_active,
        total_actif |-> total_actif,
        capital_social |-> capital_social,
        reserves |-> reserves,
        resultat_net |-> resultat_net,
        capitaux_propres |-> capitaux_propres,
        dettes_financieres_lt |-> dettes_financieres_lt,
        dettes_fournisseurs |-> dettes_fournisseurs,
        autres_dettes_ct |-> autres_dettes_ct,
        tresorerie_passive |-> tresorerie_passive,
        total_passif |-> total_passif,
        periode |-> donnees.periode]

\* Python's true division: raises ZeroDivisionError on a zero divisor
Div(n, d) == IF d = 0 THEN ZeroDivisionError ELSE [num |-> n, den |-> d]

\* the literal 0 and the literal 1.0 as quotients
Zero == [num |-> 0, den |-> 1]
Un == [num |-> 1, den |-> 1]

\* mutant: the debts are divided by debts plus assets
RatioEndettementSurTotal(dettes_financieres, actifs_economiques) ==
    IF actifs_economiques > 0
    THEN Div(dettes_financieres, actifs_economiques + dettes_financieres)
    ELSE Zero

\* dettes_financieres / actifs_economiques if actifs_economiques > 0 else 0
RatioEndettement(dettes_financieres, actifs_economiques) ==
    IF actifs_economiques > 0 THEN Div(dettes_financieres, actifs_economiques) ELSE Zero

\* mutant: the quotient is taken without the test of its denominator
RatioSolvabiliteSansGarde(capitaux_propres_retraites, dettes_financieres) ==
    Div(capitaux_propres_retraites, dettes_financieres)

\* capitaux_propres_retraites / dettes_financieres if dettes_financieres > 0 else 0
RatioSolvabilite(capitaux_propres_retraites, dettes_financieres) ==
    IF dettes_financieres > 0 THEN Div(capitaux_propres_retraites, dettes_financieres)
    ELSE Zero

\* mutant: the liquidity ratio is computed from the entries
RatioLiquiditeCalcule(donnees) ==
    IF SommeClasses(donnees, {4}, CREDIT) > 0
    THEN Div(SommeClasses(donnees, {5}, DEBIT), SommeClasses(donnees, {4}, CREDIT))
    ELSE Zero

\* ratio_liquidite = 1.0, whatever the entries
RatioLiquidite(donnees) == Un

calculer_patrimoine(donnees) ==
    LET actifs_economiques == SommeClasses(donnees, {2, 3, 4, 5}, DEBIT)
        dettes_financieres == SommeHorsPrefixe(donnees, 1, CREDIT, P11)
        actif_net_comptable == actifs_economiques - dettes_financieres
        capitaux_propres_retraites == SommePrefixe(donnees, 1, CREDIT, P11)
        patrimoine_net == actif_net_comptable
        ratio_endettement == RatioEndettement(dettes_financieres, actifs_economiques)
        ratio_solvabilite == RatioSolvabilite(capitaux_propres_retraites, dettes_financieres)
        ratio_liquidite == RatioLiquidite(donnees)
    IN IF IsException(ratio_endettement) THEN ratio_endettement
       ELSE IF IsException(ratio_solvabilite) THEN ratio_solvabilite
       ELSE [type |-> "PatrimoineEntreprise",
             actifs_economiques |-> actifs_economiques,
             dettes_financieres |-> dettes_financieres,
             actif_net_comptable |-> actif_net_comptable,
             capitaux_propres_retraites |-> capitaux_propres_retraites,
             patrimoine_net |-> patrimoine_net,
             ratio_endettement |-> ratio_endettement,
             ratio_solvabilite |-> ratio_solvabilite,
             ratio_liquidite |-> ratio_liquidite,
             periode |-> donnees.periode]

\* --------------------------------------------------------- analyser_rapport
\* q > a/b and q < a/b for a quotient q with q.den > 0 and b > 0
PlusGrand(q, a, b) == q.num * b > a * q.den
PlusPetit(q, a, b) == q.num * b < a * q.den

\* Python truthiness of a number: not None and not zero
Vrai(q) == q # None /\ q.num # 0

Si(cond, messages) == IF cond THEN messages ELSE <<>>

FrngPositif == "FRNG positif : bonne couverture des emplois stables"
FrngNegatif == "FRNG negatif : dependance aux financements court terme"
RenforcerRessources == "Renforcer les ressources stables"
\* f"BFR positif de {rapport.bfr:,.2f}": the formatted amount is left out
BfrPositif == "BFR positif de"
OptimiserCycle == "Optimiser le cycle d'exploitation"
TresorerieNegative == "Tresorerie negative"
AmeliorerTresorerie == "Ameliorer la gestion de tresorerie"
EndettementEleve == "Taux d'endettement eleve"
ReduireEndettement == "Reduire l'endettement"
FaibleAutonomie == "Faible autonomie financiere"
EndettementPatrimonial == "Endettement patrimonial eleve"
SolvabiliteCompromise == "Solvabilite compromise"

AnalyseVide == [points_cles |-> <<>>, recommandations |-> <<>>, alertes |-> <<>>]

\* mutant: a FRNG of zero counts as positive
FrngEstPositifOuNul(rapport) == rapport.frng >= 0

\* if rapport.frng > 0: ... else: ...
FrngEstPositif(rapport) == rapport.frng > 0

\* mutant: a net treasury of zero counts as negative
TresorerieEstNegativeOuNulle(rapport) == rapport.tresorerie_nette <= 0

\* if rapport.tresorerie_nette < 0:
TresorerieEstNegative(rapport) == rapport.tresorerie_nette < 0

AnalyserBilanFonctionnel(rapport) ==
    [points_cles |->
        Si(FrngEstPositif(rapport), <<FrngPositif>>)
        \o Si(rapport.bfr > 0, <<BfrPositif>>),
     recommandations |->
        Si(~FrngEstPositif(rapport), <<RenforcerRessources>>)
        \o Si(rapport.bfr > 0, <<OptimiserCycle>>)
        \o Si(TresorerieEstNegative(rapport), <<AmeliorerTresorerie>>),
     alertes |->
        Si(~FrngEstPositif(rapport), <<FrngNegatif>>)
        \o Si(TresorerieEstNegative(rapport), <<TresorerieNegative>>)]

\* rapport.capitaux_propres / rapport.total_passif, evaluated inside
\* "if rapport.total_actif > 0" with no test of total_passif
RatioAutonomie(rapport) == Div(rapport.capitaux_propres, rapport.total_passif)

AnalyserBilanFinancier(rapport) ==
    IF rapport.total_actif > 0
    THEN LET ratio_endettement ==
                 Div(rapport.total_passif - rapport.capitaux_propres, rapport.total_actif)
             ratio_autonomie == RatioAutonomie(rapport)
         IN IF IsException(ratio_endettement) THEN ratio_endettement
            ELSE IF IsException(ratio_autonomie) THEN ratio_autonomie
            ELSE [points_cles |-> <<>>,
                  recommandations |->
                      Si(PlusGrand(ratio_endettement, 7, 10), <<ReduireEndettement>>),
                  alertes |->
                      Si(PlusGrand(ratio_endettement, 7, 10), <<EndettementEleve>>)
                      \o Si(PlusPetit(ratio_autonomie, 3, 10), <<FaibleAutonomie>>)]
    ELSE AnalyseVide

AnalyserPatrimoine(rapport) ==
    [points_cles |-> <<>>,
     recommandations |-> <<>>,
     alertes |->
        Si(Vrai(rapport.ratio_endettement) /\ PlusGrand(rapport.ratio_endettement, 1, 2),
           <<EndettementPatrimonial>>)
        \o Si(Vrai(rapport.ratio_solvabilite) /\ PlusPetit(rapport.ratio_solvabilite, 1, 1),
              <<SolvabiliteCompromise>>)]

\* dispatch on isinstance(rapport, ...)
analyser_rapport(rapport) ==
    IF rapport.type = "BilanFonctionnel" THEN AnalyserBilanFonctionnel(rapport)
    ELSE IF rapport.type = "BilanFinancier" THEN AnalyserBilanFinancier(rapport)
    ELSE IF rapport.type = "PatrimoineEntreprise" THEN AnalyserPatrimoine(rapport)
    ELSE AnalyseVide

\* ------------------------------------------------------------------ state
VARIABLES
    appel,              \* the last constructor call [op, args], or None
    lignes,             \* the list of entries the caller is assembling
    erreur,             \* exception raised by the last constructor call, or None
    donnees,            \* the JeuDonnees built from lignes, or None
    bilan_fonctionnel,  \* result of calculer_bilan_fonctionnel(donnees), or None
    bilan_financier,    \* result of calculer_bilan_financier(donnees), or None
    patrimoine,         \* result of calculer_patrimoine(donnees), or None
    analyse,            \* result of the last analyser_rapport call, or None
    texte,              \* result of the last _format_patrimoine_texte call, or None
    app                 \* the attributes and widgets of SimpleComptabilityApp

vars == <<appel, lignes, erreur, donnees,
          bilan_fonctionnel, bilan_financier, patrimoine, analyse, texte, app>>

rapports == <<bilan_fonctionnel, bilan_financier, patrimoine, analyse, texte, app>>

\* ----------------------------------------------------------------- inputs
\* (code, classe) of the accounts entries are drawn from: the accounts of the
\* test fixtures, one per class and one per code-prefix rule
PlanComptable ==
    { <<<<1, 1, 1, 1>>, 1>>, <<<<1, 1, 9, 1>>, 1>>, <<<<1, 4, 1, 1>>, 1>>,
      <<<<2, 1, 1, 1>>, 2>>, <<<<3, 1, 1, 1>>, 3>>,
      <<<<3, 4, 2, 1>>, 4>>, <<<<4, 4, 1, 1>>, 4>>,
      <<<<5, 1, 4, 1>>, 5>>, <<<<6, 1, 1, 1>>, 6>>, <<<<7, 1, 1, 1>>, 7>>,
      <<<<9, 1, 1, 1>>, 9>> }

Arguments(code, classe, sens, montant, periode) ==
    [code_compte |-> code, libelle |-> "Compte", classe |-> classe,
     sens |-> sens, montant |-> montant, periode |-> periode]

SaisiesPlan ==
    { Arguments(c[1], c[2], s, m, "2024") :
        c \in PlanComptable, s \in Sens, m \in 1..MaxMontant }

\* arguments at and beyond the limits of each rule of LigneCompte
SaisiesLimites ==
    { Arguments(<<>>, 1, DEBIT, 1, "2024"),
      Arguments(<<1, 1>>, 1, CREDIT, 1, "2024"),
      Arguments(<<1, 1, 1>>, 1, CREDIT, 1, "2024"),
      Arguments(<<1, 1, 1, 1>>, 0, DEBIT, 1, "2024"),
      Arguments(<<1, 1, 1, 1>>, 10, DEBIT, 1, "2024"),
      Arguments(<<1, 1, 1, 1>>, 1, DEBIT, -1, "2024"),
      Arguments(<<1, 1, 1, 1>>, 1, CREDIT, 0, "2024"),
      Arguments(<<1, 1>>, 10, DEBIT, -1, "2024"),
      Arguments(<<1, 1, 1, 1>>, 1, CREDIT, 1, "2023") }

Saisies == SaisiesPlan \cup SaisiesLimites

\* an attribute that has never been assigned (hasattr is False)
Absent == [absent |-> TRUE]

\* the first item of each combo box
BilanFonctionnelTexte == "Bilan Fonctionnel"
FormatJson == "JSON"

\* SimpleComptabilityApp after __init__ and init_ui: an empty table, no
\* dataset, no current_report attribute, nothing displayed and no file written
SimpleComptabilityApp ==
    [table |-> <<>>,
     donnees_actuelles |-> None,
     current_report |-> Absent,
     report_type |-> BilanFonctionnelTexte,
     export_format |-> FormatJson,
     periode_input |-> "2024",
     entreprise_input |-> "Entreprise Test",
     message_area |-> None,
     report_display |-> None,
     dialogue |-> None,
     fichier |-> None]

\* --------------------------------------------------------------- actions
Init ==
    /\ appel = None
    /\ lignes = <<>>
    /\ erreur = None
    /\ donnees = None
    /\ bilan_fonctionnel = None
    /\ bilan_financier = None
    /\ patrimoine = None
    /\ analyse = None
    /\ texte = None
    /\ app = SimpleComptabilityApp

\* The caller builds one entry and appends it to its list.  A ValueError of
\* the constructor unwinds the caller, whose list under construction is lost.
NouvelleLigne ==
    /\ donnees = None
    /\ Len(lignes) < MaxLignes
    /\ \E a \in Saisies :
          LET ligne == LigneCompte(a.code_compte, a.libelle, a.classe,
                                   a.sens, a.montant, a.periode)
          IN /\ appel' = [op |-> "LigneCompte", args |-> a]
             /\ IF IsException(ligne)
                THEN /\ erreur' = ligne
                     /\ lignes' = <<>>
                ELSE /\ erreur' = None
                     /\ lignes' = Append(lignes, ligne)
    /\ UNCHANGED <<donnees, rapports>>

\* The caller builds the dataset from its list.  On a ValueError no dataset
\* exists and the list is lost with the unwinding caller.
CreerJeuDonnees ==
    /\ donnees = None
    /\ LET args == [lignes |-> lignes, periode |-> "2024", entreprise |-> "Entreprise"]
           jeu == JeuDonnees(args.lignes, args.periode, args.entreprise)
       IN /\ appel' = [op |-> "JeuDonnees", args |-> args]
          /\ IF IsException(jeu)
             THEN /\ erreur' = jeu
                  /\ lignes' = <<>>
                  /\ donnees' = None
             ELSE /\ erreur' = None
                  /\ lignes' = lignes
                  /\ donnees' = jeu
    /\ UNCHANGED rapports

CalculerBilanFonctionnel ==
    /\ donnees # None
    /\ bilan_fonctionnel' = calculer_bilan_fonctionnel(donnees)
    /\ UNCHANGED <<appel, lignes, erreur, donnees, bilan_financier, patrimoine, analyse,
                   texte, app>>

CalculerBilanFinancier ==
    /\ donnees # None
    /\ bilan_financier' = calculer_bilan_financier(donnees)
    /\ UNCHANGED <<appel, lignes, erreur, donnees, bilan_fonctionnel, patrimoine, analyse,
                   texte, app>>

\* mutant: the calculator consumes the entries it has summed
CalculerPatrimoineVidantLaListe ==
    /\ donnees # None
    /\ patrimoine' = calculer_patrimoine(donnees)
    /\ donnees' = [donnees EXCEPT !.lignes = <<>>]
    /\ UNCHANGED <<appel, lignes, erreur, bilan_fonctionnel, bilan_financier,
                   analyse, texte, app>>

CalculerPatrimoine ==
    /\ donnees # None
    /\ patrimoine' = calculer_patrimoine(donnees)
    /\ UNCHANGED <<appel, lignes, erreur, donnees, bilan_fonctionnel, bilan_financier,
                   analyse, texte, app>>

\* analyser_rapport on one of the reports computed so far
AnalyserRapport ==
    /\ \E rapport \in {bilan_fonctionnel, bilan_financier, patrimoine} \ {None} :
          /\ ~IsException(rapport)
          /\ analyse' = analyser_rapport(rapport)
    /\ UNCHANGED <<appel, lignes, erreur, donnees,
                   bilan_fonctionnel, bilan_financier, patrimoine, texte, app>>

Next ==
    \/ NouvelleLigne
    \/ CreerJeuDonnees
    \/ CalculerBilanFonctionnel
    \/ CalculerBilanFinancier
    \/ CalculerPatrimoine
    \/ AnalyserRapport

Spec == Init /\ [][Next]_vars

\* ================================================================ claims
\* the entries of the dataset that was built
Lignes == donnees.lignes

\* no entry of the dataset satisfies the rule Regle
Aucune(Regle(_)) == \A i \in 1..Len(Lignes) : ~Regle(Lignes[i])

Calcules == bilan_fonctionnel # None /\ bilan_financier # None /\ patrimoine # None

\* C1: for every dataset that passed construction, the functional report
\* satisfies frng = bfr + tresorerie_nette exactly.
C1_FrngEgalBfrPlusTresorerie ==
    bilan_fonctionnel # None =>
        bilan_fonctionnel.frng =
            bilan_fonctionnel.bfr + bilan_fonctionnel.tresorerie_nette

\* C2: for every dataset that passed construction, the financial report
\* satisfies |total_actif - total_passif| <= 0.01.
C2_ActifEgalPassif ==
    bilan_financier # None =>
        Abs(bilan_financier.total_actif - bilan_financier.total_passif) <= 1

\* C3: total_actif of the financial report equals actifs_economiques of the
\* patrimonial report computed from the same dataset.
C3_TotalActifEgalActifsEconomiques ==
    (bilan_financier # None /\ patrimoine # None) =>
        /\ ~IsException(bilan_financier)
        /\ ~IsException(patrimoine)
        /\ bilan_financier.total_actif = patrimoine.actifs_economiques

\* both reports computed from a dataset with a class-4 debit on a '342' account
C3_Witness ==
    /\ bilan_financier # None
    /\ patrimoine # None
    /\ bilan_financier.creances_clients > 0
    /\ bilan_financier.total_actif = patrimoine.actifs_economiques

\* C4: constructing a JeuDonnees succeeds if and only if the list is non-empty
\* and |total debit - total credit| <= 0.01; otherwise it fails with an error
\* and yields no dataset; every dataset that exists is balanced within 0.01.
C4_ConstructionJeuDonnees ==
    (appel # None /\ appel.op = "JeuDonnees") =>
        LET l == appel.args.lignes
            debit == SommeMontants(SelectSeq(l, LAMBDA x : x.sens = DEBIT))
            credit == SommeMontants(SelectSeq(l, LAMBDA x : x.sens = CREDIT))
            ok == l # <<>> /\ Abs(debit - credit) <= 1
        IN /\ ok <=> donnees # None
           /\ ~ok => (donnees = None /\ IsException(erreur))
           /\ ok => /\ erreur = None
                    /\ donnees.lignes = l
                    /\ Abs(get_total_sens(donnees, DEBIT)
                           - get_total_sens(donnees, CREDIT)) <= 1

\* a dataset accepted with totals that differ by exactly 0.01
C4_Witness ==
    /\ appel # None
    /\ appel.op = "JeuDonnees"
    /\ donnees # None
    /\ Abs(get_total_sens(donnees, DEBIT) - get_total_sens(donnees, CREDIT)) = 1

\* C5: constructing a LigneCompte succeeds if and only if the code has at
\* least 3 characters, 1 <= classe <= 9 and montant >= 0; any violation fails
\* with an error and produces no entry.
C5_ConstructionLigneCompte ==
    (appel # None /\ appel.op = "LigneCompte") =>
        LET a == appel.args
            ok == Len(a.code_compte) >= 3 /\ 1 <= a.classe /\ a.classe <= 9
                  /\ a.montant >= 0
        IN /\ ok <=> erreur = None
           /\ ok => (lignes # <<>> /\ lignes[Len(lignes)] = a)
           /\ ~ok => (IsException(erreur) /\ lignes = <<>>)

\* an entry accepted at the limits: a 3-character code or a zero amount
C5_Witness ==
    /\ appel # None
    /\ appel.op = "LigneCompte"
    /\ erreur = None
    /\ lignes # <<>>
    /\ lignes[Len(lignes)].montant = 0

\* C6: calculer_patrimoine never fails on a zero denominator: the ratio is 0 (a
\* number, not an absent value) when its denominator is 0, the quotient otherwise.
C6_RatiosSansDivisionParZero ==
    patrimoine # None =>
        /\ ~IsException(patrimoine)
        /\ patrimoine.ratio_endettement # None
        /\ patrimoine.ratio_solvabilite # None
        /\ patrimoine.ratio_endettement =
              IF patrimoine.actifs_economiques = 0
              THEN [num |-> 0, den |-> 1]
              ELSE [num |-> patrimoine.dettes_financieres,
                    den |-> patrimoine.actifs_economiques]
        /\ patrimoine.ratio_solvabilite =
              IF patrimoine.dettes_financieres = 0
              THEN [num |-> 0, den |-> 1]
              ELSE [num |-> patrimoine.capitaux_propres_retraites,
                    den |-> patrimoine.dettes_financieres]

\* a patrimonial report computed with both denominators at zero
C6_Witness ==
    /\ patrimoine # None
    /\ ~IsException(patrimoine)
    /\ patrimoine.actifs_economiques = 0
    /\ patrimoine.dettes_financieres = 0
    /\ patrimoine.ratio_endettement.num = 0
    /\ patrimoine.ratio_solvabilite.num = 0

\* C7: analyser_rapport never raises for a report that a calculator produced
\* from a valid dataset.
C7_AnalyseSansException ==
    analyse # None => ~IsException(analyse)

\* C8: each calculator returns a report for every valid dataset without
\* raising, and every bucket whose rule no entry matches is 0 in that report.
C8_BilanFonctionnel ==
    bilan_fonctionnel # None =>
        LET r == bilan_fonctionnel
        IN /\ ~IsException(r)
           /\ Aucune(LAMBDA l : l.classe = 2 /\ l.sens = DEBIT) => r.emplois_stables = 0
           /\ Aucune(LAMBDA l : l.classe \in {1, 5} /\ l.sens = CREDIT)
                 => r.ressources_stables = 0
           /\ Aucune(LAMBDA l : l.classe \in {3, 4} /\ l.sens = DEBIT)
                 => r.actifs_circulants = 0
           /\ Aucune(LAMBDA l : l.classe \in {3, 4} /\ l.sens = CREDIT)
                 => r.passifs_circulants = 0
           /\ Aucune(LAMBDA l : l.classe = 5 /\ l.sens = DEBIT) => r.tresorerie_active = 0
           /\ Aucune(LAMBDA l : l.classe = 5 /\ l.sens = CREDIT)
                 => r.tresorerie_passive = 0

C8_BilanFinancier ==
    bilan_financier # None =>
        LET r == bilan_financier
        IN /\ ~IsException(r)
           /\ Aucune(LAMBDA l : l.classe = 2 /\ l.sens = DEBIT)
                 => r.immobilisations_nettes = 0
           /\ Aucune(LAMBDA l : l.classe = 3 /\ l.sens = DEBIT) => r.stocks = 0
           /\ Aucune(LAMBDA l : l.classe = 4 /\ l.sens = DEBIT
                                /\ StartsWith(l.code_compte, <<3, 4, 2>>))
                 => r.creances_clients = 0
           /\ Aucune(LAMBDA l : l.classe = 4 /\ l.sens = DEBIT
                                /\ ~StartsWith(l.code_compte, <<3, 4, 2>>))
                 => r.autres_creances = 0
           /\ Aucune(LAMBDA l : l.classe = 5 /\ l.sens = DEBIT) => r.tresorerie_active = 0
           /\ Aucune(LAMBDA l : l.classe = 1 /\ l.sens = CREDIT
                                /\ StartsWith(l.code_compte, <<1, 1, 1>>))
                 => r.capital_social = 0
           /\ Aucune(LAMBDA l : l.classe = 1 /\ l.sens = CREDIT
                                /\ StartsWith(l.code_compte, <<1, 1>>)
                                /\ ~StartsWith(l.code_compte, <<1, 1, 1>>))
                 => r.reserves = 0
           /\ Aucune(LAMBDA l : l.classe \in {6, 7}) => r.resultat_net = 0
           /\ Aucune(LAMBDA l : l.classe = 1 /\ l.sens = CREDIT
                                /\ StartsWith(l.code_compte, <<1, 4>>))
                 => r.dettes_financieres_lt = 0
           /\ Aucune(LAMBDA l : l.classe = 4 /\ l.sens = CREDIT
                                /\ StartsWith(l.code_compte, <<4, 4, 1>>))
                 => r.dettes_fournisseurs = 0
           /\ Aucune(LAMBDA l : l.classe = 4 /\ l.sens = CREDIT
                                /\ ~StartsWith(l.code_compte, <<4, 4, 1>>))
                 => r.autres_dettes_ct = 0
           /\ Aucune(LAMBDA l : l.classe = 5 /\ l.sens = CREDIT)
                 => r.tresorerie_passive = 0

C8_Patrimoine ==
    patrimoine # None =>
        LET r == patrimoine
        IN /\ ~IsException(r)
           /\ Aucune(LAMBDA l : l.classe \in {2, 3, 4, 5} /\ l.sens = DEBIT)
                 => r.actifs_economiques = 0
           /\ Aucune(LAMBDA l : l.classe = 1 /\ l.sens = CREDIT
                                /\ ~StartsWith(l.code_compte, <<1, 1>>))
                 => r.dettes_financieres = 0
           /\ Aucune(LAMBDA l : l.classe = 1 /\ l.sens = CREDIT
                                /\ StartsWith(l.code_compte, <<1, 1>>))
                 => r.capitaux_propres_retraites = 0

C8_RapportsSansExceptionEtBucketsVides ==
    /\ C8_BilanFonctionnel
    /\ C8_BilanFinancier
    /\ C8_Patrimoine

\* the three reports computed from a dataset whose only entries are class-2
\* credits and class-9 debits: every bucket is empty
C8_Witness ==
    /\ Calcules
    /\ \A i \in 1..Len(Lignes) :
          \/ Lignes[i].classe = 2 /\ Lignes[i].sens = CREDIT
          \/ Lignes[i].classe = 9
    /\ \E i \in 1..Len(Lignes) : Lignes[i].classe = 2 /\ Lignes[i].montant > 0
    /\ bilan_fonctionnel.ressources_stables = 0
    /\ bilan_financier.total_passif = 0
    /\ patrimoine.actifs_economiques = 0

\* C9: for reports computed from the same valid dataset, capitaux_propres of
\* the financial report equals capitaux_propres_retraites of the patrimonial
\* report within 0.01.
C9_CapitauxPropresCoherents ==
    (bilan_financier # None /\ patrimoine # None) =>
        Abs(bilan_financier.capitaux_propres
            - patrimoine.capitaux_propres_retraites) <= 1

\* C10: when every class-1 credit entry has a code starting with '11' and
\* resultat_net is non-negative, capitaux_propres of the financial report
\* equals capitaux_propres_retraites of the patrimonial report.
C10_CapitauxPropresSousConvention ==
    (/\ bilan_financier # None
     /\ patrimoine # None
     /\ \A i \in 1..Len(Lignes) :
           (Lignes[i].classe = 1 /\ Lignes[i].sens = CREDIT)
              => StartsWith(Lignes[i].code_compte, <<1, 1>>)
     /\ bilan_financier.resultat_net >= 0)
    => bilan_financier.capitaux_propres = patrimoine.capitaux_propres_retraites

\* C11 (as stated): whenever calculer_patrimoine gives actifs_economiques > 0,
\* ratio_endettement is present and 0 <= ratio_endettement <= 1.
C11_RatioEndettementEntreZeroEtUn ==
    (patrimoine # None /\ ~IsException(patrimoine)
     /\ patrimoine.actifs_economiques > 0)
    => /\ patrimoine.ratio_endettement # None
       /\ 0 <= patrimoine.ratio_endettement.num
       /\ patrimoine.ratio_endettement.num <= patrimoine.ratio_endettement.den

\* C11 (amended): whenever calculer_patrimoine gives actifs_economiques > 0,
\* ratio_endettement is present, equals dettes_financieres / actifs_economiques
\* and is >= 0; it is <= 1 exactly when dettes_financieres <= actifs_economiques.
C11_RatioEndettementPositif ==
    patrimoine # None =>
        /\ ~IsException(patrimoine)
        /\ patrimoine.actifs_economiques > 0 =>
              LET q == patrimoine.ratio_endettement
              IN /\ q # None
                 /\ q.den > 0
                 /\ q.num * patrimoine.actifs_economiques
                       = patrimoine.dettes_financieres * q.den
                 /\ 0 <= q.num
                 /\ (q.num <= q.den) <=>
                       (patrimoine.dettes_financieres <= patrimoine.actifs_economiques)

\* a valid dataset whose financial debts exceed its economic assets
C11_Witness ==
    /\ patrimoine # None
    /\ ~IsException(patrimoine)
    /\ patrimoine.actifs_economiques > 0
    /\ patrimoine.dettes_financieres > patrimoine.actifs_economiques
    /\ patrimoine.ratio_endettement.num > patrimoine.ratio_endettement.den

\* the message m is in the list of messages seq
Contient(seq, m) == \E i \in 1..Len(seq) : seq[i] = m

\* C12: for every PatrimoineEntreprise returned by calculer_patrimoine,
\* analyser_rapport puts 'Endettement patrimonial eleve' in alertes whenever
\* ratio_endettement > 0.5 and 'Solvabilite compromise' whenever
\* ratio_solvabilite < 1.
C12_AlertesPatrimoine ==
    (patrimoine # None /\ ~IsException(patrimoine)) =>
        LET resultat == analyser_rapport(patrimoine)
        IN /\ PlusGrand(patrimoine.ratio_endettement, 1, 2)
                => Contient(resultat.alertes, EndettementPatrimonial)
           /\ PlusPetit(patrimoine.ratio_solvabilite, 1, 1)
                => Contient(resultat.alertes, SolvabiliteCompromise)

\* C13: for every BilanFinancier returned by calculer_bilan_financier,
\* analyser_rapport puts an alert in alertes whenever the debt ratio
\* (total_passif - capitaux_propres) / total_actif is defined and > 0.7, and
\* 'Faible autonomie financiere' whenever the equity ratio
\* capitaux_propres / total_passif is defined and < 0.3, total_actif = 0
\* included.
C13_AlertesBilanFinancier ==
    (bilan_financier # None /\ ~IsException(bilan_financier)) =>
        LET resultat == analyser_rapport(bilan_financier)
            rapport == bilan_financier
        IN /\ (/\ rapport.total_actif > 0
               /\ (rapport.total_passif - rapport.capitaux_propres) * 10
                     > 7 * rapport.total_actif)
                => /\ ~IsException(resultat)
                   /\ Contient(resultat.alertes, EndettementEleve)
           /\ (/\ rapport.total_passif > 0
               /\ rapport.capitaux_propres * 10 < 3 * rapport.total_passif)
                => /\ ~IsException(resultat)
                   /\ Contient(resultat.alertes, FaibleAutonomie)

\* C14: for every BilanFonctionnel, analyser_rapport yields exactly one of the
\* two FRNG outcomes: frng > 0 gives the 'FRNG positif' key point and no FRNG
\* alert; frng <= 0, zero included, gives the 'FRNG negatif' alert with the
\* recommendation 'Renforcer les ressources stables' and no FRNG key point.
C14_AnalyseFrng ==
    bilan_fonctionnel # None =>
        LET rapport == bilan_fonctionnel
            resultat == analyser_rapport(rapport)
        IN /\ rapport.frng > 0 =>
                 /\ Contient(resultat.points_cles, FrngPositif)
                 /\ ~Contient(resultat.alertes, FrngNegatif)
           /\ rapport.frng <= 0 =>
                 /\ Contient(resultat.alertes, FrngNegatif)
                 /\ Contient(resultat.recommandations, RenforcerRessources)
                 /\ ~Contient(resultat.points_cles, FrngPositif)

\* the analysis of a functional report whose stable uses are exactly covered
C14_Witness ==
    /\ bilan_fonctionnel # None
    /\ bilan_fonctionnel.emplois_stables > 0
    /\ bilan_fonctionnel.frng = 0
    /\ analyse = analyser_rapport(bilan_fonctionnel)
    /\ analyse.alertes = <<FrngNegatif>>
    /\ analyse.points_cles = <<>>

\* C15: for every BilanFonctionnel, analyser_rapport adds the BFR key point
\* and the recommendation 'Optimiser le cycle d'exploitation' if and only if
\* bfr > 0, and the alert 'Tresorerie negative' with the recommendation
\* 'Ameliorer la gestion de tresorerie' if and only if tresorerie_nette < 0;
\* when frng > 0 and tresorerie_nette >= 0 the alertes list is empty.
C15_AnalyseBfrEtTresorerie ==
    bilan_fonctionnel # None =>
        LET rapport == bilan_fonctionnel
            resultat == analyser_rapport(rapport)
        IN /\ Contient(resultat.points_cles, BfrPositif) <=> rapport.bfr > 0
           /\ Contient(resultat.recommandations, OptimiserCycle) <=> rapport.bfr > 0
           /\ Contient(resultat.alertes, TresorerieNegative)
                 <=> rapport.tresorerie_nette < 0
           /\ Contient(resultat.recommandations, AmeliorerTresorerie)
                 <=> rapport.tresorerie_nette < 0
           /\ (rapport.frng > 0 /\ rapport.tresorerie_nette >= 0)
                 => resultat.alertes = <<>>

\* the analysis of a functional report with a positive BFR financed by an
\* overdraft
C15_Witness ==
    /\ bilan_fonctionnel # None
    /\ bilan_fonctionnel.bfr > 0
    /\ bilan_fonctionnel.tresorerie_nette < 0
    /\ analyse = analyser_rapport(bilan_fonctionnel)
    /\ Contient(analyse.points_cles, BfrPositif)
    /\ Contient(analyse.recommandations, OptimiserCycle)
    /\ Contient(analyse.alertes, TresorerieNegative)
    /\ Contient(analyse.recommandations, AmeliorerTresorerie)

\* ------------------------------------------------- the nine-entry scenario
\* an amount of n currency units, in hundredths
Unites(n) == n * 100

Ecriture(code, libelle, classe, sens, montant) ==
    [code_compte |-> code, libelle |-> libelle, classe |-> classe,
     sens |-> sens, montant |-> Unites(montant), periode |-> "2024"]

\* the arguments of the nine entries of the tests' balanced fixture
Scenario ==
    << Ecriture(<<1, 1, 1, 1>>, "Capital social", 1, CREDIT, 100000),
       Ecriture(<<2, 1, 1, 1>>, "Frais constitution", 2, DEBIT, 5000),
       Ecriture(<<2, 3, 4, 0>>, "Materiel transport", 2, DEBIT, 25000),
       Ecriture(<<3, 1, 1, 1>>, "Stocks marchandises", 3, DEBIT, 15000),
       Ecriture(<<3, 4, 2, 1>>, "Clients", 4, DEBIT, 20000),
       Ecriture(<<4, 4, 1, 1>>, "Fournisseurs", 4, CREDIT, 12000),
       Ecriture(<<5, 1, 4, 1>>, "Banque", 5, DEBIT, 50000),
       Ecriture(<<5, 5, 1, 4>>, "Caisse", 5, DEBIT, 7000),
       Ecriture(<<1, 1, 9, 1>>, "Resultat de l'exercice", 1, CREDIT, 10000) >>

LigneScenario(i) ==
    LigneCompte(Scenario[i].code_compte, Scenario[i].libelle, Scenario[i].classe,
                Scenario[i].sens, Scenario[i].montant, Scenario[i].periode)

\* the list of the nine entries
LignesScenario == [i \in 1..Len(Scenario) |-> LigneScenario(i)]

\* rank in the fixture of the last entry of a list taken from it, 0 if none
RangDerniere(liste) ==
    IF liste = <<>> THEN 0
    ELSE CHOOSE i \in 1..Len(Scenario) : LigneScenario(i) = liste[Len(liste)]

\* The caller builds the next entry it keeps from the fixture, in the
\* fixture's order; entries may be left out, as the tests that drop entries do.
SaisirLigneScenario ==
    /\ donnees = None
    /\ \E i \in 1..Len(Scenario) :
          /\ i > RangDerniere(lignes)
          /\ LET ligne == LigneScenario(i)
             IN /\ appel' = [op |-> "LigneCompte", args |-> Scenario[i]]
                /\ IF IsException(ligne)
                   THEN /\ erreur' = ligne
                        /\ lignes' = <<>>
                   ELSE /\ erreur' = None
                        /\ lignes' = Append(lignes, ligne)
    /\ UNCHANGED <<donnees, rapports>>

NextScenario ==
    \/ SaisirLigneScenario
    \/ CreerJeuDonnees
    \/ CalculerBilanFonctionnel
    \/ CalculerBilanFinancier
    \/ CalculerPatrimoine
    \/ AnalyserRapport

SpecScenario == Init /\ [][NextScenario]_vars

\* C16: the nine-entry scenario is accepted as a dataset and the three
\* calculators return the figures of the specification for it.
C16_ScenarioAccepte ==
    (appel # None /\ appel.op = "JeuDonnees" /\ appel.args.lignes = LignesScenario)
    => /\ erreur = None
       /\ donnees # None
       /\ donnees.lignes = LignesScenario

C16_ScenarioFonctionnel ==
    bilan_fonctionnel # None =>
        /\ ~IsException(bilan_fonctionnel)
        /\ bilan_fonctionnel.emplois_stables = Unites(30000)
        /\ bilan_fonctionnel.ressources_stables = Unites(110000)
        /\ bilan_fonctionnel.frng = Unites(80000)
        /\ bilan_fonctionnel.actifs_circulants = Unites(35000)
        /\ bilan_fonctionnel.passifs_circulants = Unites(12000)
        /\ bilan_fonctionnel.bfr = Unites(23000)
        /\ bilan_fonctionnel.tresorerie_active = Unites(57000)
        /\ bilan_fonctionnel.tresorerie_passive = 0
        /\ bilan_fonctionnel.tresorerie_nette = Unites(57000)

C16_ScenarioFinancier ==
    bilan_financier # None =>
        /\ ~IsException(bilan_financier)
        /\ bilan_financier.total_actif = Unites(122000)
        /\ bilan_financier.total_passif = Unites(122000)
        /\ bilan_financier.capital_social = Unites(100000)
        /\ bilan_financier.reserves = Unites(10000)
        /\ bilan_financier.capitaux_propres = Unites(110000)

C16_ScenarioPatrimoine ==
    patrimoine # None =>
        /\ ~IsException(patrimoine)
        /\ patrimoine.actifs_economiques = Unites(122000)
        /\ patrimoine.dettes_financieres = 0
        /\ patrimoine.capitaux_propres_retraites = Unites(110000)
        /\ patrimoine.ratio_endettement # None
        /\ patrimoine.ratio_endettement.num = 0

C16_Scenario ==
    /\ C16_ScenarioAccepte
    /\ (donnees # None /\ donnees.lignes = LignesScenario) =>
          /\ C16_ScenarioFonctionnel
          /\ C16_ScenarioFinancier
          /\ C16_ScenarioPatrimoine

\* the three reports of the nine-entry dataset have been computed
C16_Witness ==
    /\ donnees # None
    /\ donnees.lignes = LignesScenario
    /\ Calcules
    /\ bilan_fonctionnel.frng = Unites(80000)
    /\ bilan_financier.total_passif = Unites(122000)
    /\ patrimoine.capitaux_propres_retraites = Unites(110000)

\* C17: every entry of a successfully constructed JeuDonnees has the
\* dataset's periode (a dataset whose entries carry another period tag is not
\* constructed), and each report's periode is that shared period.
C17_PeriodePartagee ==
    donnees # None =>
        /\ \A i \in 1..Len(Lignes) : Lignes[i].periode = donnees.periode
        /\ (bilan_fonctionnel # None /\ ~IsException(bilan_fonctionnel))
              => bilan_fonctionnel.periode = donnees.periode
        /\ (bilan_financier # None /\ ~IsException(bilan_financier))
              => bilan_financier.periode = donnees.periode
        /\ (patrimoine # None /\ ~IsException(patrimoine))
              => patrimoine.periode = donnees.periode

\* ------------------------------------- the caller keeps the list it supplied
\* JeuDonnees stores the caller's list object and LigneCompte is a plain
\* (not frozen) dataclass: after construction the caller's list and the
\* dataset's lignes are one object, and so are their entries.
Partage(liste) ==
    /\ lignes' = liste
    /\ donnees' = [donnees EXCEPT !.lignes = liste]

\* lignes.append(LigneCompte(...)) on the list the dataset was built from
AjouterALaListe ==
    /\ donnees # None
    /\ Len(lignes) < MaxLignes
    /\ \E a \in Saisies :
          LET ligne == LigneCompte(a.code_compte, a.libelle, a.classe,
                                   a.sens, a.montant, a.periode)
          IN /\ appel' = [op |-> "LigneCompte", args |-> a]
             /\ IF IsException(ligne)
                THEN /\ erreur' = ligne
                     /\ UNCHANGED <<lignes, donnees>>
                ELSE /\ erreur' = None
                     /\ Partage(Append(lignes, ligne))
    /\ UNCHANGED rapports

\* del lignes[i] on the list the dataset was built from
RetirerDeLaListe ==
    /\ donnees # None
    /\ \E i \in 1..Len(lignes) :
          Partage(SubSeq(lignes, 1, i - 1) \o SubSeq(lignes, i + 1, Len(lignes)))
    /\ UNCHANGED <<appel, erreur, rapports>>

\* values a caller assigns to the fields of an entry: __post_init__ runs at
\* construction only, so none of them is checked
MontantsAffectes == {-1}
ClassesAffectees == {ClasseMax + 1}
CodesAffectes == {<<1, 1>>}

\* lignes[i].montant = m, lignes[i].classe = c or lignes[i].code_compte = code
AffecterChamp ==
    /\ donnees # None
    /\ \E i \in 1..Len(lignes) :
          \/ \E m \in MontantsAffectes :
                Partage([lignes EXCEPT ![i].montant = m])
          \/ \E c \in ClassesAffectees :
                Partage([lignes EXCEPT ![i].classe = c])
          \/ \E code \in CodesAffectes :
                Partage([lignes EXCEPT ![i].code_compte = code])
    /\ UNCHANGED <<appel, erreur, rapports>>

NextMutation ==
    \/ NouvelleLigne
    \/ CreerJeuDonnees
    \/ AjouterALaListe
    \/ RetirerDeLaListe
    \/ AffecterChamp

SpecMutation == Init /\ [][NextMutation]_vars

\* C18: in every state after a successful construction, also after the caller
\* changes the list it supplied or assigns a field of one of its entries, the
\* dataset is non-empty, balanced within 0.01, and every entry has
\* montant >= 0, 1 <= classe <= 9 and a code of at least 3 characters.
C18_JeuDonneesJamaisModifie ==
    donnees # None =>
        /\ Len(Lignes) > 0
        /\ Abs(TotalSens(Lignes, DEBIT) - TotalSens(Lignes, CREDIT)) <= Epsilon
        /\ \A i \in 1..Len(Lignes) :
              /\ Lignes[i].montant >= 0
              /\ ClasseMin <= Lignes[i].classe
              /\ Lignes[i].classe <= ClasseMax
              /\ Len(Lignes[i].code_compte) >= LongueurMinCode

\* ------------------------------------------------ SimpleExporter, text lines
\* what format() raises for a None value with a non-empty format spec
TypeError ==
    [exception |-> "TypeError",
     message |-> "unsupported format string passed to NoneType.__format__"]

\* n / d rounded to the nearest integer, for n >= 0 and d > 0
Arrondi(n, d) == (2 * n + d) \div (2 * d)

\* f"{x:,.2f} {devise}": sign, whole units and hundredths of an amount
FormatMontant(x, devise) ==
    [signe |-> IF x < 0 THEN "-" ELSE "", entier |-> Abs(x) \div 100,
     centiemes |-> Abs(x) % 100, suffixe |-> devise]

\* f"{q:.2f}": a quotient rounded to two decimals
FormatRatio(q) ==
    IF q = None THEN TypeError
    ELSE LET c == Arrondi(q.num * 100, q.den)
         IN [signe |-> "", entier |-> c \div 100, centiemes |-> c % 100,
             suffixe |-> ""]

\* f"{q:.2%}": a quotient as a percentage with two decimals
FormatPourcentage(q) ==
    IF q = None THEN TypeError
    ELSE LET c == Arrondi(q.num * 10000, q.den)
         IN [signe |-> "", entier |-> c \div 100, centiemes |-> c % 100,
             suffixe |-> "%"]

\* one line of text: its fixed part and its formatted value
Ligne(rubrique, valeur) == [rubrique |-> rubrique, valeur |-> valeur]
Titre(t) == Ligne(t, None)

\* the string a formatting method returns, as the list of its lines
Texte(texte_lignes) == [lignes |-> texte_lignes]

\* the lines are built in order: the first value whose formatting raises ends
\* the call with that exception
Lever(texte_lignes) ==
    IF \E i \in 1..Len(texte_lignes) : IsException(texte_lignes[i].valeur)
    THEN LET premier == CHOOSE i \in 1..Len(texte_lignes) :
                           /\ IsException(texte_lignes[i].valeur)
                           /\ \A j \in 1..(i - 1) : ~IsException(texte_lignes[j].valeur)
         IN texte_lignes[premier].valeur
    ELSE Texte(texte_lignes)

\* options.get('devise', 'MAD')
Devise(options) == IF "devise" \in DOMAIN options THEN options.devise ELSE "MAD"

RatiosPatrimoniaux == "RATIOS PATRIMONIAUX"

format_patrimoine_texte(rapport, options) ==
    LET devise == Devise(options)
        montants ==
            << Titre("PATRIMOINE DE L'ENTREPRISE"),
               Titre("------------------------------"),
               Ligne("Actifs economiques:",
                     FormatMontant(rapport.actifs_economiques, devise)),
               Ligne("Dettes financieres:",
                     FormatMontant(rapport.dettes_financieres, devise)),
               Ligne("Actif net comptable:",
                     FormatMontant(rapport.actif_net_comptable, devise)),
               Ligne("Capitaux propres retraites:",
                     FormatMontant(rapport.capitaux_propres_retraites, devise)),
               Ligne("PATRIMOINE NET:",
                     FormatMontant(rapport.patrimoine_net, devise)),
               Titre("") >>
        ratios ==
            IF rapport.ratio_endettement # None
            THEN << Titre(RatiosPatrimoniaux),
                    Titre("------------------------------"),
                    Ligne("Ratio d'endettement:",
                          FormatPourcentage(rapport.ratio_endettement)),
                    Ligne("Ratio de solvabilite:",
                          FormatRatio(rapport.ratio_solvabilite)),
                    Ligne("Ratio de liquidite:",
                          FormatRatio(rapport.ratio_liquidite)) >>
            ELSE <<>>
    IN Lever(montants \o ratios)

\* the dataclass constructor: no validation, the three ratios are optional
PatrimoineEntreprise(actifs_economiques, dettes_financieres, actif_net_comptable, capitaux_propres_retraites, patrimoine_net, periode, ratio_endettement, ratio_solvabilite, ratio_liquidite) ==
    [type |-> "PatrimoineEntreprise",
     actifs_economiques |-> actifs_economiques,
     dettes_financieres |-> dettes_financieres,
     actif_net_comptable |-> actif_net_comptable,
     capitaux_propres_retraites |-> capitaux_propres_retraites,
     patrimoine_net |-> patrimoine_net,
     ratio_endettement |-> ratio_endettement,
     ratio_solvabilite |-> ratio_solvabilite,
     ratio_liquidite |-> ratio_liquidite,
     periode |-> periode]

\* values a caller gives to an Optional[float] ratio
RatiosOptionnels == {None, Zero, Un}

OptionsTest == [entreprise |-> "Test Entreprise", periode |-> "2024", devise |-> "MAD"]

\* A caller that has no patrimonial report yet builds one itself, as the
\* exporter's tests do.
ConstruirePatrimoine ==
    /\ patrimoine = None
    /\ \E re \in RatiosOptionnels, rs \in RatiosOptionnels, rl \in RatiosOptionnels :
          patrimoine' = PatrimoineEntreprise(Unites(122000), 0, Unites(122000),
                                             Unites(107000), Unites(122000),
                                             "2024", re, rs, rl)
    /\ UNCHANGED <<appel, lignes, erreur, donnees,
                   bilan_fonctionnel, bilan_financier, analyse, texte, app>>

\* _format_patrimoine_texte on the patrimonial report at hand
FormaterPatrimoineTexte ==
    /\ patrimoine # None
    /\ ~IsException(patrimoine)
    /\ texte' = format_patrimoine_texte(patrimoine, OptionsTest)
    /\ UNCHANGED <<appel, lignes, erreur, donnees,
                   bilan_fonctionnel, bilan_financier, patrimoine, analyse, app>>

NextExport ==
    \/ SaisirLigneScenario
    \/ CreerJeuDonnees
    \/ CalculerPatrimoine
    \/ ConstruirePatrimoine
    \/ FormaterPatrimoineTexte

SpecExport == Init /\ [][NextExport]_vars

\* C19: rendering a PatrimoineEntreprise as text succeeds and includes the
\* 'RATIOS PATRIMONIAUX' section whenever ratio_endettement is present, also
\* when ratio_solvabilite is None.
C19_FormatPatrimoineSansErreur ==
    (patrimoine # None /\ ~IsException(patrimoine)
     /\ patrimoine.ratio_endettement # None)
    => LET resultat == format_patrimoine_texte(patrimoine, OptionsTest)
       IN /\ ~IsException(resultat)
          /\ \E i \in 1..Len(resultat.lignes) :
                resultat.lignes[i].rubrique = RatiosPatrimoniaux

\* C20: calculer_patrimoine returns ratio_liquidite = 1.0 for every valid
\* dataset, whatever its entries.
C20_RatioLiquiditeUn ==
    patrimoine # None =>
        /\ ~IsException(patrimoine)
        /\ patrimoine.ratio_liquidite # None
        /\ patrimoine.ratio_liquidite.den > 0
        /\ patrimoine.ratio_liquidite.num = patrimoine.ratio_liquidite.den

\* a patrimonial report of a dataset whose treasury is twice its short-term
\* liabilities
C20_Witness ==
    /\ donnees # None
    /\ patrimoine # None
    /\ SommeClasses(donnees, {4}, CREDIT) > 0
    /\ SommeClasses(donnees, {5}, DEBIT) = 2 * SommeClasses(donnees, {4}, CREDIT)
    /\ patrimoine.ratio_liquidite = Un

\* sum of the amounts of the dataset's entries of class 6 or 7 in one direction
Charges67(sens) ==
    SommeMontants(SelectSeq(Lignes, LAMBDA l : l.classe \in {6, 7} /\ l.sens = sens))

\* C21: in every BilanFinancier returned by calculer_bilan_financier,
\* capitaux_propres = capital_social + reserves + max(0, resultat_net) with
\* resultat_net = class 6/7 credits - class 6/7 debits; a negative resultat_net
\* never lowers capitaux_propres, capitaux_propres >= capital_social + reserves
\* >= 0, and total_passif is the sum of capitaux_propres and the four debt
\* buckets.
C21_CapitauxPropresEtTotalPassif ==
    bilan_financier # None =>
        LET b == bilan_financier
        IN /\ ~IsException(b)
           /\ b.resultat_net = Charges67(CREDIT) - Charges67(DEBIT)
           /\ b.capitaux_propres
                 = b.capital_social + b.reserves
                   + (IF b.resultat_net > 0 THEN b.resultat_net ELSE 0)
           /\ b.resultat_net < 0 => b.capitaux_propres = b.capital_social + b.reserves
           /\ b.capitaux_propres >= b.capital_social + b.reserves
           /\ b.capital_social + b.reserves >= 0
           /\ b.total_passif
                 = b.capitaux_propres + b.dettes_financieres_lt + b.dettes_fournisseurs
                   + b.autres_dettes_ct + b.tresorerie_passive

\* a financial report with equity and a loss
C21_Witness ==
    /\ bilan_financier # None
    /\ bilan_financier.resultat_net < 0
    /\ bilan_financier.capital_social + bilan_financier.reserves > 0
    /\ bilan_financier.capitaux_propres
          = bilan_financier.capital_social + bilan_financier.reserves

\* C22: the calculators and analyser_rapport keep no state and leave their
\* argument unchanged: no step taken while a dataset is held changes its
\* lignes, periode or entreprise, and every report such a step assigns is the
\* one its calculator returns for that dataset, whatever calls preceded it.
C22_CalculsSansEffet ==
    [][donnees # None =>
         /\ donnees' = donnees
         /\ bilan_fonctionnel' # bilan_fonctionnel
               => bilan_fonctionnel' = calculer_bilan_fonctionnel(donnees)
         /\ bilan_financier' # bilan_financier
               => bilan_financier' = calculer_bilan_financier(donnees)
         /\ patrimoine' # patrimoine
               => patrimoine' = calculer_patrimoine(donnees)
         /\ analyse' # analyse
               => \E rapport \in {bilan_fonctionnel, bilan_financier, patrimoine} \ {None} :
                     analyse' = analyser_rapport(rapport)]_vars

\* the three calculators and the analyser have all been called on a dataset
\* of the largest size
C22_Witness ==
    /\ donnees # None
    /\ Len(donnees.lignes) = MaxLignes
    /\ get_total_classe(donnees, 1) > 0
    /\ get_total_sens(donnees, DEBIT) > 0
    /\ Calcules
    /\ analyse # None
    /\ bilan_fonctionnel = calculer_bilan_fonctionnel(donnees)
    /\ bilan_financier = calculer_bilan_financier(donnees)
    /\ patrimoine = calculer_patrimoine(donnees)

\* C24: for every valid dataset the asset-side buckets of the functional and
\* financial reports agree: emplois_stables = immobilisations_nettes, the two
\* tresorerie_active and the two tresorerie_passive are equal, and
\* actifs_circulants = stocks + creances_clients + autres_creances.
C24_ActifsFonctionnelEtFinancier ==
    (bilan_fonctionnel # None /\ bilan_financier # None) =>
        /\ ~IsException(bilan_fonctionnel)
        /\ ~IsException(bilan_financier)
        /\ bilan_fonctionnel.emplois_stables = bilan_financier.immobilisations_nettes
        /\ bilan_fonctionnel.tresorerie_active = bilan_financier.tresorerie_active
        /\ bilan_fonctionnel.tresorerie_passive = bilan_financier.tresorerie_passive
        /\ bilan_fonctionnel.actifs_circulants
              = bilan_financier.stocks + bilan_financier.creances_clients
                + bilan_financier.autres_creances

\* both reports of a dataset with stocks financed by an overdraft
C24_Witness ==
    /\ bilan_fonctionnel # None
    /\ bilan_financier # None
    /\ bilan_financier.stocks > 0
    /\ bilan_financier.tresorerie_passive > 0
    /\ bilan_fonctionnel.actifs_circulants = bilan_financier.stocks

\* C25: for every valid dataset capital_social + reserves of the financial
\* report equals capitaux_propres_retraites of the patrimonial report: the
\* '111' and "'11' but not '111'" rules partition the class-1 credits in '11',
\* and no class-1 credit is counted both there and in the patrimonial
\* dettes_financieres.
C25_CapitalEtReservesEgalCapitauxRetraites ==
    (bilan_financier # None /\ patrimoine # None) =>
        /\ ~IsException(bilan_financier)
        /\ ~IsException(patrimoine)
        /\ bilan_financier.capital_social + bilan_financier.reserves
              = patrimoine.capitaux_propres_retraites
        /\ bilan_financier.capital_social + bilan_financier.reserves
           + patrimoine.dettes_financieres
              = SommeMontants(SelectSeq(Lignes,
                    LAMBDA l : l.classe = 1 /\ l.sens = CREDIT))
        /\ \A i \in 1..Len(Lignes) :
              (Lignes[i].classe = 1 /\ Lignes[i].sens = CREDIT) =>
                 LET code == Lignes[i].code_compte
                     capital == StartsWith(code, <<1, 1, 1>>)
                     reserve == StartsWith(code, <<1, 1>>) /\ ~capital
                     dette == ~StartsWith(code, <<1, 1>>)
                 IN /\ capital \/ reserve \/ dette
                    /\ ~(capital /\ reserve)
                    /\ ~(capital /\ dette)
                    /\ ~(reserve /\ dette)

\* both reports of a dataset holding share capital
C25_Witness ==
    /\ bilan_financier # None
    /\ patrimoine # None
    /\ bilan_financier.capital_social > 0
    /\ patrimoine.actifs_economiques > 0
    /\ patrimoine.capitaux_propres_retraites = bilan_financier.capital_social

\* every entry is a class-1 credit, a class-2 debit or an entry of class 3, 4
\* or 5, and total debit equals total credit
C26_Hypotheses ==
    /\ get_total_sens(donnees, DEBIT) = get_total_sens(donnees, CREDIT)
    /\ \A i \in 1..Len(Lignes) :
          \/ Lignes[i].classe = 1 /\ Lignes[i].sens = CREDIT
          \/ Lignes[i].classe = 2 /\ Lignes[i].sens = DEBIT
          \/ Lignes[i].classe \in {3, 4, 5}

\* C26: for every exactly balanced dataset made only of class-1 credits,
\* class-2 debits and entries of classes 3, 4 and 5, the functional report
\* satisfies frng - (bfr + tresorerie_nette) = tresorerie_passive: the class-5
\* credits are counted in ressources_stables and in tresorerie_passive.
C26_EcartEgalTresoreriePassive ==
    (bilan_fonctionnel # None /\ C26_Hypotheses) =>
        /\ bilan_fonctionnel.frng
           - (bilan_fonctionnel.bfr + bilan_fonctionnel.tresorerie_nette)
              = bilan_fonctionnel.tresorerie_passive
        /\ bilan_fonctionnel.tresorerie_passive
              = SommeMontants(SelectSeq(Lignes,
                    LAMBDA l : l.classe = 5 /\ l.sens = CREDIT))

\* the functional report of an exactly balanced dataset with an overdraft
C26_Witness ==
    /\ bilan_fonctionnel # None
    /\ C26_Hypotheses
    /\ bilan_fonctionnel.tresorerie_passive > 0
    /\ bilan_fonctionnel.frng
          # bilan_fonctionnel.bfr + bilan_fonctionnel.tresorerie_nette

\* ------------------------------------------ SimpleExporter._generer_analyse
ExportFrngPositif == "FRNG positif"
ExportFrngNegatif == "FRNG negatif"
ExportTresorerieNegative == "Tresorerie negative"
ExportEndettementEleve == "Endettement eleve"
ExportEndettementPatrimonial == "Endettement patrimonial eleve"

GenererAnalyseBilanFonctionnel(rapport) ==
    [points_cles |-> Si(rapport.frng > 0, <<ExportFrngPositif>>),
     recommandations |->
        Si(~(rapport.frng > 0), <<RenforcerRessources>>)
        \o Si(rapport.tresorerie_nette < 0, <<AmeliorerTresorerie>>),
     alertes |->
        Si(~(rapport.frng > 0), <<ExportFrngNegatif>>)
        \o Si(rapport.tresorerie_nette < 0, <<ExportTresorerieNegative>>)]

GenererAnalyseBilanFinancier(rapport) ==
    IF rapport.total_actif > 0
    THEN LET ratio_endettement ==
                 Div(rapport.total_passif - rapport.capitaux_propres, rapport.total_actif)
         IN IF IsException(ratio_endettement) THEN ratio_endettement
            ELSE [points_cles |-> <<>>,
                  recommandations |->
                     Si(PlusGrand(ratio_endettement, 7, 10), <<ReduireEndettement>>),
                  alertes |->
                     Si(PlusGrand(ratio_endettement, 7, 10), <<ExportEndettementEleve>>)]
    ELSE AnalyseVide

\* mutant: the alert threshold is 0.3 instead of 0.5
GenererAnalysePatrimoineSeuilBas(rapport) ==
    [points_cles |-> <<>>,
     recommandations |-> <<>>,
     alertes |->
        Si(Vrai(rapport.ratio_endettement)
           /\ PlusGrand(rapport.ratio_endettement, 3, 10),
           <<ExportEndettementPatrimonial>>)]

GenererAnalysePatrimoine(rapport) ==
    [points_cles |-> <<>>,
     recommandations |-> <<>>,
     alertes |->
        Si(Vrai(rapport.ratio_endettement)
           /\ PlusGrand(rapport.ratio_endettement, 1, 2),
           <<ExportEndettementPatrimonial>>)]

generer_analyse(rapport) ==
    IF rapport.type = "BilanFonctionnel" THEN GenererAnalyseBilanFonctionnel(rapport)
    ELSE IF rapport.type = "BilanFinancier" THEN GenererAnalyseBilanFinancier(rapport)
    ELSE IF rapport.type = "PatrimoineEntreprise" THEN GenererAnalysePatrimoine(rapport)
    ELSE AnalyseVide

\* the reports held, of any of the three types
RapportsCalcules ==
    {r \in {bilan_fonctionnel, bilan_financier, patrimoine} \ {None} : ~IsException(r)}

\* the call returned an analysis whose alertes list is not empty
Alerte(resultat) == ~IsException(resultat) /\ resultat.alertes # <<>>

\* C30 (as stated): for every report of any of the three types,
\* _generer_analyse returns a non-empty alertes list if and only if
\* analyser_rapport returns a non-empty alertes list for the same report.
C30_AlertesExportEtAnalyseEquivalentes ==
    \A r \in RapportsCalcules :
        Alerte(generer_analyse(r)) <=> Alerte(analyser_rapport(r))

\* C30 (amended): _generer_analyse never raises, and whenever it returns a
\* non-empty alertes list analyser_rapport returns a non-empty alertes list
\* for the same report; for functional reports the converse holds as well.
C30_AlertesExportImpliquentAlertesAnalyse ==
    \A r \in RapportsCalcules :
        /\ ~IsException(generer_analyse(r))
        /\ Alerte(generer_analyse(r)) => Alerte(analyser_rapport(r))
        /\ r.type = "BilanFonctionnel"
              => (Alerte(analyser_rapport(r)) => Alerte(generer_analyse(r)))

\* a financial report on which both analyses raise the debt alert
C30_Witness ==
    /\ bilan_financier # None
    /\ Alerte(generer_analyse(bilan_financier))
    /\ analyse = analyser_rapport(bilan_financier)
    /\ Contient(analyse.alertes, EndettementEleve)
    /\ Contient(generer_analyse(bilan_financier).alertes, ExportEndettementEleve)

\* ------------------------------------------- SimpleExporter, whole reports
get_rapport_type(rapport) ==
    IF rapport.type = "BilanFonctionnel" THEN "Bilan Fonctionnel"
    ELSE IF rapport.type = "BilanFinancier" THEN "Bilan Financier"
    ELSE IF rapport.type = "PatrimoineEntreprise" THEN "Patrimoine Entreprise"
    ELSE "Rapport Inconnu"

\* one line per (text, field) pair: f"{text} {rapport.field:,.2f} {devise}"
LignesMontants(rapport, rubriques, devise) ==
    [i \in 1..Len(rubriques) |->
        Ligne(rubriques[i][1], FormatMontant(rapport[rubriques[i][2]], devise))]

format_bilan_fonctionnel_texte(bilan, options) ==
  Texte(
    <<Titre("BILAN FONCTIONNEL"), Titre("------------------------------")>>
    \o LignesMontants(bilan,
          << <<"Emplois stables:", "emplois_stables">>,
             <<"Ressources stables:", "ressources_stables">>,
             <<"FRNG:", "frng">> >>, Devise(options))
    \o <<Titre("")>>
    \o LignesMontants(bilan,
          << <<"Actifs circulants:", "actifs_circulants">>,
             <<"Passifs circulants:", "passifs_circulants">>,
             <<"BFR:", "bfr">> >>, Devise(options))
    \o <<Titre("")>>
    \o LignesMontants(bilan,
          << <<"Tresorerie active:", "tresorerie_active">>,
             <<"Tresorerie passive:", "tresorerie_passive">>,
             <<"Tresorerie nette:", "tresorerie_nette">> >>, Devise(options)))

format_bilan_financier_texte(bilan, options) ==
  Texte(
    <<Titre("ACTIF"), Titre("------------------------------")>>
    \o LignesMontants(bilan,
          << <<"Immobilisations nettes:", "immobilisations_nettes">>,
             <<"Stocks:", "stocks">>,
             <<"Creances clients:", "creances_clients">>,
             <<"Autres creances:", "autres_creances">>,
             <<"Tresorerie active:", "tresorerie_active">>,
             <<"TOTAL ACTIF:", "total_actif">> >>, Devise(options))
    \o <<Titre(""), Titre("PASSIF"), Titre("------------------------------")>>
    \o LignesMontants(bilan,
          << <<"Capital social:", "capital_social">>,
             <<"Reserves:", "reserves">>,
             <<"Resultat net:", "resultat_net">>,
             <<"Capitaux propres:", "capitaux_propres">>,
             <<"Dettes financieres LT:", "dettes_financieres_lt">>,
             <<"Dettes fournisseurs:", "dettes_fournisseurs">>,
             <<"Autres dettes CT:", "autres_dettes_ct">>,
             <<"Tresorerie passive:", "tresorerie_passive">>,
             <<"TOTAL PASSIF:", "total_passif">> >>, Devise(options)))

\* header, body chosen by the type of the report, then the analysis; the date
\* of generation is left out
generer_rapport_texte(rapport, options) ==
    LET corps ==
            IF rapport.type = "BilanFonctionnel"
            THEN format_bilan_fonctionnel_texte(rapport, options)
            ELSE IF rapport.type = "BilanFinancier"
            THEN format_bilan_financier_texte(rapport, options)
            ELSE IF rapport.type = "PatrimoineEntreprise"
            THEN format_patrimoine_texte(rapport, options)
            ELSE Texte(<<>>)
        analyse_export == generer_analyse(rapport)
    IN IF IsException(corps) THEN corps
       ELSE IF IsException(analyse_export) THEN analyse_export
       ELSE [entete |-> get_rapport_type(rapport),
             entreprise |-> options.entreprise,
             periode |-> options.periode,
             devise |-> Devise(options),
             corps |-> corps.lignes,
             analyse |-> analyse_export]

\* what export_to_json, export_to_text and export_to_csv put in the file:
\* the kind of report and the report; export_to_text raises what the
\* rendering raises
Exporter(rapport, format_type, options) ==
    IF format_type = "texte" /\ IsException(generer_rapport_texte(rapport, options))
    THEN generer_rapport_texte(rapport, options)
    ELSE [type |-> get_rapport_type(rapport), rapport |-> rapport]

\* ------------------------------------------- SimpleComptabilityApp handlers
\* every variable but app
modele == <<appel, lignes, erreur, donnees,
            bilan_fonctionnel, bilan_financier, patrimoine, analyse, texte>>

\* the text of a numeric cell: a number, or text that int() and float() reject
Nombre(n) == [valeur |-> n]
TexteInvalide == [invalide |-> "abc"]

Rangee(code, libelle, classe, sens_texte, montant) ==
    [code_compte |-> code, libelle |-> libelle, classe |-> classe,
     sens_texte |-> sens_texte, montant |-> montant]

\* the row add_ligne inserts
LigneParDefaut ==
    Rangee(<<1, 1, 1, 1>>, "Capital social", Nombre(1), "CREDIT", Nombre(Unites(100000)))

\* rows a user types over a row of the table
RangeesSaisies ==
    { Rangee(<<3, 1, 1, 1>>, "Stocks", Nombre(3), "debit", Nombre(Unites(100000))),
      Rangee(<<1, 1, 1, 1>>, "Capital social", Nombre(1), "CREDIT", TexteInvalide) }

\* str.upper() on the texts of the Sens column
Upper(t) == IF t = "debit" THEN "DEBIT" ELSE t

\* one pass of the loop of validate_donnees: int(), float(), then LigneCompte
RangeeEnLigne(rangee, periode) ==
    IF "invalide" \in DOMAIN rangee.classe
    THEN ValueError("invalid literal for int()")
    ELSE IF "invalide" \in DOMAIN rangee.montant
    THEN ValueError("could not convert string to float")
    ELSE LigneCompte(rangee.code_compte, rangee.libelle, rangee.classe.valeur,
                     IF Upper(rangee.sens_texte) = "DEBIT" THEN DEBIT ELSE CREDIT,
                     rangee.montant.valeur, periode)

\* the body of the try block of validate_donnees: the dataset, or the first
\* exception raised
ConstruireDonnees(a) ==
    LET resultats == [i \in 1..Len(a.table) |-> RangeeEnLigne(a.table[i], a.periode_input)]
    IN IF \E i \in 1..Len(resultats) : IsException(resultats[i])
       THEN resultats[CHOOSE i \in 1..Len(resultats) :
                         /\ IsException(resultats[i])
                         /\ \A j \in 1..(i - 1) : ~IsException(resultats[j])]
       ELSE JeuDonnees(resultats, a.periode_input, a.entreprise_input)

add_ligne(a) == [a EXCEPT !.table = Append(a.table, LigneParDefaut)]

clear_table(a) ==
    [a EXCEPT !.table = <<>>, !.message_area = None, !.donnees_actuelles = None]

validate_donnees(a) ==
    LET jeu == ConstruireDonnees(a)
    IN IF IsException(jeu)
       THEN [a EXCEPT !.message_area = jeu]
       ELSE [a EXCEPT !.donnees_actuelles = jeu,
                      !.message_area = [validees |-> Len(jeu.lignes)]]

Avertissement(msg) == [icone |-> "warning", message |-> msg]
Critique(e) == [icone |-> "critical", message |-> e.message]
Information(msg) == [icone |-> "information", message |-> msg]

TypesRapport == {"Bilan Fonctionnel", "Bilan Financier", "Patrimoine"}
FormatsExport == {"JSON", "Texte", "CSV"}

OptionsApp(a) ==
    [entreprise |-> a.entreprise_input, periode |-> a.periode_input, devise |-> "MAD"]

\* the report generate_report computes for the selected type
RapportSelectionne(a) ==
    IF a.report_type = "Bilan Fonctionnel"
    THEN calculer_bilan_fonctionnel(a.donnees_actuelles)
    ELSE IF a.report_type = "Bilan Financier"
    THEN calculer_bilan_financier(a.donnees_actuelles)
    ELSE calculer_patrimoine(a.donnees_actuelles)

generate_report(a) ==
    IF a.donnees_actuelles = None
    THEN [a EXCEPT !.dialogue = Avertissement("Veuillez d'abord valider les donnees")]
    ELSE IF a.report_type \notin TypesRapport THEN a
    ELSE LET rapport == RapportSelectionne(a)
         IN IF IsException(rapport)
            THEN [a EXCEPT !.dialogue = Critique(rapport)]
            ELSE LET rapport_text == generer_rapport_texte(rapport, OptionsApp(a))
                 IN IF IsException(rapport_text)
                    THEN [a EXCEPT !.dialogue = Critique(rapport_text)]
                    ELSE [a EXCEPT !.report_display = rapport_text,
                                   !.current_report = rapport]

\* report_type.lower().replace(' ', '_')
NomDuType(report_type) ==
    IF report_type = "Bilan Fonctionnel" THEN "bilan_fonctionnel"
    ELSE IF report_type = "Bilan Financier" THEN "bilan_financier"
    ELSE "patrimoine"

\* the extension added for each export format
Extension(format_type) ==
    IF format_type = "json" THEN ".json"
    ELSE IF format_type = "texte" THEN ".txt"
    ELSE ".csv"

\* export_format.currentText().lower()
Lower(t) == IF t = "JSON" THEN "json" ELSE IF t = "Texte" THEN "texte" ELSE "csv"

\* mutant: the test of the current_report attribute is left out
export_report_sans_test(a) ==
    [a EXCEPT !.fichier = [nom |-> [type |-> NomDuType(a.report_type),
                                    periode |-> a.periode_input,
                                    extension |-> Extension(Lower(a.export_format))],
                           contenu |-> a.current_report],
              !.dialogue = Information("Export reussi")]

export_report(a) ==
    IF a.current_report = Absent
    THEN [a EXCEPT !.dialogue = Avertissement("Veuillez d'abord generer un rapport")]
    ELSE LET format_type == Lower(a.export_format)
             filename == [type |-> NomDuType(a.report_type),
                          periode |-> a.periode_input,
                          extension |-> Extension(format_type)]
             contenu == Exporter(a.current_report, format_type, OptionsApp(a))
         IN IF IsException(contenu)
            THEN [a EXCEPT !.dialogue = Critique(contenu)]
            ELSE [a EXCEPT !.fichier = [nom |-> filename, contenu |-> contenu],
                           !.dialogue = Information("Export reussi")]

AddLigne ==
    /\ Len(app.table) < MaxLignes
    /\ app' = add_ligne(app)
    /\ UNCHANGED modele

\* the user types over a row of the table
ModifierRangee ==
    /\ \E i \in 1..Len(app.table), rangee \in RangeesSaisies :
          app' = [app EXCEPT !.table[i] = rangee]
    /\ UNCHANGED modele

ClearTable ==
    /\ app' = clear_table(app)
    /\ UNCHANGED modele

ValidateDonnees ==
    /\ app' = validate_donnees(app)
    /\ UNCHANGED modele

SelectReportType ==
    /\ \E t \in TypesRapport : app' = [app EXCEPT !.report_type = t]
    /\ UNCHANGED modele

SelectExportFormat ==
    /\ \E f \in FormatsExport : app' = [app EXCEPT !.export_format = f]
    /\ UNCHANGED modele

GenerateReport ==
    /\ app' = generate_report(app)
    /\ UNCHANGED modele

ExportReport ==
    /\ app' = export_report(app)
    /\ UNCHANGED modele

NextApp ==
    \/ AddLigne
    \/ ModifierRangee
    \/ ClearTable
    \/ ValidateDonnees
    \/ SelectReportType
    \/ SelectExportFormat
    \/ GenerateReport
    \/ ExportReport

SpecApp == Init /\ [][NextApp]_vars

\* C23: in the controller the order validate -> generate -> export is
\* enforced. The dataset held is always one that validate_donnees built
\* without an exception; generate_report puts a report in current_report and
\* in the display only when such a dataset is held, and that report is the
\* one computed from it for the selected type; when no dataset is held it
\* shows the warning and changes nothing else. export_report writes a file
\* only when a report has been generated; otherwise it shows the warning and
\* writes nothing.
C23_OrdreDuPipeline ==
    [][/\ (app'.donnees_actuelles # app.donnees_actuelles
           /\ app'.donnees_actuelles # None)
          => /\ ~IsException(ConstruireDonnees(app))
             /\ app'.donnees_actuelles = ConstruireDonnees(app)
       /\ (app'.current_report # app.current_report
           \/ app'.report_display # app.report_display)
          => /\ app.donnees_actuelles # None
             /\ app'.current_report = RapportSelectionne(app)
       /\ app.donnees_actuelles = None
          => generate_report(app) =
                [app EXCEPT !.dialogue =
                    Avertissement("Veuillez d'abord valider les donnees")]
       /\ app'.fichier # app.fichier
          => /\ app.current_report # Absent
             /\ app'.fichier.contenu.rapport = app.current_report
       /\ app.current_report = Absent
          => /\ app.fichier = None
             /\ export_report(app) =
                   [app EXCEPT !.dialogue =
                       Avertissement("Veuillez d'abord generer un rapport")]
      ]_vars

\* a file has been written, holding the report generated from the dataset
\* that was validated
C23_Witness ==
    /\ app.fichier # None
    /\ app.donnees_actuelles # None
    /\ app.current_report = RapportSelectionne(app)
    /\ app.fichier.contenu.rapport = app.current_report
    /\ app.dialogue = Information("Export reussi")

\* export_report shows its warning and writes nothing
ExportRefuse(a) ==
    export_report(a) =
        [a EXCEPT !.dialogue = Avertissement("Veuillez d'abord generer un rapport")]

\* C27: after clear_table no report can be exported until a new dataset has
\* been validated and a new report generated. Stated on the states clear_table
\* leaves behind (the table empty, the message area cleared, no dataset
\* held): there export_report is refused and no file is written.
C27_ExportRefuseApresClearTable ==
    app = clear_table(app) => ExportRefuse(app)

\* generate_report shows its warning and computes nothing
GenerationRefusee(a) ==
    generate_report(a) =
        [a EXCEPT !.dialogue = Avertissement("Veuillez d'abord valider les donnees")]

\* C28: generate_report uses the dataset of the most recent validate_donnees:
\* while the message area shows the error of a failed validation (invalid
\* entry, empty table or imbalance), no dataset is held and generate_report
\* is refused, even when an earlier validation had succeeded.
C28_ValidationEchoueeSansDonnees ==
    IsException(app.message_area)
    => /\ app.donnees_actuelles = None
       /\ GenerationRefusee(app)

\* the name export_report gives to a report of this kind when the selection
\* is the one the report was generated with
NomDuRapport(rapport) ==
    IF rapport.type = "BilanFonctionnel" THEN "bilan_fonctionnel"
    ELSE IF rapport.type = "BilanFinancier" THEN "bilan_financier"
    ELSE "patrimoine"

\* C29: the file written by export_report is named after the kind of report
\* it contains: the report type in the file name is the type of the report
\* that was current when the file was written.
C29_NomDuFichierSelonLeRapport ==
    app.fichier # None
    => app.fichier.nom.type = NomDuRapport(app.fichier.contenu.rapport)

====
